---------------------------- MODULE Spec2Model ----------------------------
(***************************************************************************)
(* A model of electrum_dash/dash_net.py: the DashNet peer pool, its ban    *)
(* list, the recent-islocks list and the recent-dsq rings.                 *)
(*                                                                         *)
(* Specifications:                                                         *)
(*   Spec        the peer pool: start, stop, set_parameters, the maintain  *)
(*               loop, connection attempts, connection_down, max_peers     *)
(*   SpecBan     the ban list and its persisted document                   *)
(*   SpecDsq     add_recent_dsq / get_recent_dsq on the two rings          *)
(*   SpecIsLock  append_to_recent_islocks / clear_recent_islocks           *)
(***************************************************************************)
EXTENDS Integers, Sequences, FiniteSets, TLC

VARIABLES
    now,                  \* time.time(), in seconds
    \* ---- recent dsq data (DashNet.__init__, lines 227-229)
    recent_dsq,           \* deque([], 100), index 1 is the left end
    recent_dsq_hashes,    \* deque([], 50), index 1 is the left end
    dsq_ret,              \* what the last get_recent_dsq returned
    dsq_trace,            \* the calls made so far on the dsq rings
    dsq_stamp,            \* per slot of recent_dsq: when its record was pushed
    hash_stamp,           \* per slot of recent_dsq_hashes: when it was pushed
    dsq_clock,            \* the stamp of the next push
    \* ---- recent islocks data (DashNet.__init__, lines 221-225)
    recent_islocks,       \* list of (txid, time) records
    recent_islocks_clear, \* time of the last scan
    il_pc,                \* per thread: position in append/clear
    il_now,               \* per thread: the local 'now' of clear_recent_islocks
    il_seen,              \* every record appended so far, in order
    \* ---- sporks (DashSporks.__init__, lines 105-107)
    gathered_sporks,      \* spork id -> value
    from_peers,           \* peers that reported a spork
    spork_trace,          \* the set_spork calls made so far
    spork_ret,            \* the last query on the sporks and what it returned
    \* ---- _gather_sporks (lines 557-572)
    sporks_done,          \* the live peers whose sporks_done flag is set
    gather_ret,           \* what the last iteration of the gather loop did
    \* ---- resolve_dns_over_https (lines 723-740)
    dns_call,             \* the call in progress or the last one made
    \* ---- ban list (DashNet.__init__, lines 194-211)
    data_dir,             \* whether config.path gave a data directory
    banlist,              \* peer -> ban record
    banfile,              \* the content of banlist.gz
    save_failed,          \* whether a write of banlist.gz has failed
    ban_trace,            \* the ban-list calls made so far (SpecBan)
    \* ---- configuration surface (SimpleConfig, network.proxy)
    config,               \* run_dash_net, dash_peers, dash_use_static_peers,
                          \* dash_max_peers as config.get returns them
    net_proxy,            \* network.proxy
    calls,                \* calls made on the pool from outside so far
    \* ---- DashNet attributes (DashNet.__init__, lines 189-217)
    run_dash_net, dash_peers, use_static_peers, static_peers,
    proxy,
    max_peers,            \* self._max_peers
    main_taskgroup,       \* None, or the group: "open" / "closed"
    peers,                \* the keys of self.peers (one DashPeer each)
    connecting,
    peers_queue,          \* None or the queue.Queue content
    found_peers,
    disconnected_static,  \* peer -> time of its last connection_down
    \* ---- tasks on the asyncio loop
    mt_pc,                \* _maintain_peers: where it is suspended
    gs_pc,                \* _gather_sporks: "none" / "run"
    ma_pc,                \* _monitor_activity: "none" / "run"
    attempts,             \* _run_new_peer tasks waiting for dash_peer.ready
    sp_pc,                \* set_parameters: "idle" / "stopping"
    sp_snap,              \* set_parameters: the snapshot of lines 418-425
    stop_pc,              \* a stop() call from outside: "idle" / "cancelling"
    restart_lock,         \* holder of restart_lock, or None
    start_failed,         \* whether an assertion of _start has failed
    failed_at,            \* static mode: peer -> time its last attempt failed
                          \* if it was not queued since, else 0
    \* ---- find_peers (lines 502-518)
    getaddr_done,         \* the live peers whose getaddr_done flag is set
    getaddr_sent,         \* peer -> getaddr messages sent to its live connection
    find_ret,             \* what the last run of find_peers did
    \* ---- the 'dash-peers-updated' callbacks (lines 625, 658)
    peers_updated         \* peer -> 'added' minus 'removed' callbacks so far

dsqVars == <<recent_dsq, recent_dsq_hashes, dsq_ret, dsq_trace,
             dsq_stamp, hash_stamp, dsq_clock>>
ilVars  == <<recent_islocks, recent_islocks_clear, il_pc, il_now, il_seen>>
gatherVars == <<sporks_done, gather_ret>>
sporkVars == <<gathered_sporks, from_peers, spork_trace, spork_ret, gatherVars>>
banVars == <<data_dir, banlist, banfile, save_failed>>
cfgVars == <<config, net_proxy, calls>>
confVars == <<run_dash_net, dash_peers, use_static_peers, static_peers>>
taskVars == <<mt_pc, gs_pc, ma_pc, attempts>>
findVars == <<getaddr_done, getaddr_sent, find_ret>>
poolVars == <<peers_updated, findVars, confVars, proxy, max_peers, main_taskgroup, peers, connecting,
              peers_queue, found_peers, disconnected_static, taskVars,
              sp_pc, sp_snap, stop_pc, restart_lock, start_failed, failed_at>>
vars == <<now, dsqVars, ilVars, sporkVars, dns_call, banVars, ban_trace, cfgVars, poolVars>>

\* An optional value: Python's None, or a value.
None == <<>>
Some(v) == <<v>>
Get(o) == o[1]

\* network.proxy: no proxy, or a proxy descriptor
NoProxy == "no proxy"
\* main_taskgroup, restart_lock holder: no object
NoGroup == "no group"
NoHolder == "no holder"

Min(a, b) == IF a < b THEN a ELSE b

(***************************************************************************)
(* collections.deque with a maxlen: a push on a full deque discards the    *)
(* item at the opposite end.                                               *)
(***************************************************************************)
DequeAppendLeft(dq, x, maxlen) ==
    IF Len(dq) = maxlen THEN <<x>> \o SubSeq(dq, 1, maxlen - 1) ELSE <<x>> \o dq

DequeAppend(dq, x, maxlen) ==
    IF Len(dq) = maxlen THEN SubSeq(dq, 2, maxlen) \o <<x>> ELSE dq \o <<x>>

SeqToSet(s) == {s[i] : i \in 1..Len(s)}
InSeq(x, l) == \E i \in 1..Len(l) : l[i] = x

\* a Python dict as a function on its keys
EmptyDict == <<>>
DictSet(d, k, v) == [x \in DOMAIN d \cup {k} |-> IF x = k THEN v ELSE d[x]]
DictDel(d, k) == [x \in DOMAIN d \ {k} |-> d[x]]

(***************************************************************************)
(*                     Recent dsq data (lines 379-414)                     *)
(***************************************************************************)
\* dash_ps_net.PSDenoms and PRIVATESEND_QUEUE_TIMEOUT (imported, line 47)
PSDenoms == {1, 2, 4, 8, 16}
PRIVATESEND_QUEUE_TIMEOUT == 30

\* deque([], 100) and deque([], 50), lines 228-229
RECENT_DSQ_MAXLEN == 100
RECENT_DSQ_HASHES_MAXLEN == 50

\* f'{nDenom}:{dsq.masternodeOutPoint}:{dsq.nTime}', line 383
dsq_hash(dsq) == <<dsq.nDenom, dsq.masternodeOutPoint, dsq.nTime>>

\* The rings and their push stamps, as one value.
DsqState(rd, rh, ds, hs, clk) ==
    [rd |-> rd, rh |-> rh, ds |-> ds, hs |-> hs, clk |-> clk]

DsqCur == DsqState(recent_dsq, recent_dsq_hashes, dsq_stamp, hash_stamp, dsq_clock)

\* add_recent_dsq with the fingerprint never recorded
add_recent_dsq_no_hash(st, dsq) ==
    IF dsq.nDenom \notin PSDenoms THEN st
    ELSE IF dsq_hash(dsq) \in SeqToSet(st.rh) THEN st
    ELSE DsqState(DequeAppendLeft(st.rd, dsq, RECENT_DSQ_MAXLEN), st.rh,
                  DequeAppendLeft(st.ds, st.clk, RECENT_DSQ_MAXLEN), st.hs,
                  st.clk + 1)

\* add_recent_dsq on rings that make room by dropping their newest entry
DequeReplaceNewest(dq, x, maxlen, left) ==
    IF Len(dq) < maxlen THEN (IF left THEN <<x>> \o dq ELSE dq \o <<x>>)
    ELSE IF left THEN <<x>> \o SubSeq(dq, 2, maxlen)
    ELSE SubSeq(dq, 1, maxlen - 1) \o <<x>>

add_recent_dsq_drop_newest(st, dsq) ==
    IF dsq.nDenom \notin PSDenoms THEN st
    ELSE IF dsq_hash(dsq) \in SeqToSet(st.rh) THEN st
    ELSE DsqState(DequeReplaceNewest(st.rd, dsq, RECENT_DSQ_MAXLEN, TRUE),
                  DequeReplaceNewest(st.rh, dsq_hash(dsq), RECENT_DSQ_HASHES_MAXLEN, FALSE),
                  DequeReplaceNewest(st.ds, st.clk, RECENT_DSQ_MAXLEN, TRUE),
                  DequeReplaceNewest(st.hs, st.clk, RECENT_DSQ_HASHES_MAXLEN, FALSE),
                  st.clk + 1)

\* DashNet.add_recent_dsq, lines 379-389
add_recent_dsq(st, dsq) ==
    IF dsq.nDenom \notin PSDenoms THEN st
    ELSE IF dsq_hash(dsq) \in SeqToSet(st.rh) THEN st
    ELSE DsqState(DequeAppendLeft(st.rd, dsq, RECENT_DSQ_MAXLEN),
                  DequeAppend(st.rh, dsq_hash(dsq), RECENT_DSQ_HASHES_MAXLEN),
                  DequeAppendLeft(st.ds, st.clk, RECENT_DSQ_MAXLEN),
                  DequeAppend(st.hs, st.clk, RECENT_DSQ_HASHES_MAXLEN),
                  st.clk + 1)

\* network.mn_list.get_mn_by_outpoint (line 398): the masternode list known
\* to the client; every fifth outpoint is unknown.
DEFAULT_PORT == 9999
get_mn_by_outpoint(outpoint) ==
    IF outpoint % 5 = 0 THEN None
    ELSE Some([ipAddress |-> outpoint % 2, port |-> DEFAULT_PORT])

\* is_suitable_dsq that does not look at the age of the announcement
is_suitable_dsq_any_age(dsq, recent_mixes_mns, t) ==
    LET sml_entry == get_mn_by_outpoint(dsq.masternodeOutPoint) IN
    IF sml_entry = None THEN FALSE
    ELSE <<Get(sml_entry).ipAddress, Get(sml_entry).port>> \notin recent_mixes_mns

\* DashNet.is_suitable_dsq, lines 391-408
is_suitable_dsq(dsq, recent_mixes_mns, t) ==
    IF t - dsq.nTime > PRIVATESEND_QUEUE_TIMEOUT THEN FALSE
    ELSE LET sml_entry == get_mn_by_outpoint(dsq.masternodeOutPoint) IN
         IF sml_entry = None THEN FALSE
         ELSE <<Get(sml_entry).ipAddress, Get(sml_entry).port>> \notin recent_mixes_mns

\* DashNet.get_recent_dsq, lines 410-414: [ret, n] with n the number
\* of records popped from the left end
RECURSIVE get_recent_dsq(_, _, _, _)
get_recent_dsq(rd, recent_mixes_mns, t, n) ==
    IF Len(rd) = n THEN [ret |-> None, n |-> n]
    ELSE IF is_suitable_dsq(rd[n + 1], recent_mixes_mns, t)
         THEN [ret |-> Some(rd[n + 1]), n |-> n + 1]
         ELSE get_recent_dsq(rd, recent_mixes_mns, t, n + 1)

\* ---- inputs of the dsq specification
MaxDsqFill == 101          \* announcements seen before the first modelled call
MaxDsqOps  == 2            \* calls per behaviour

\* the i-th announcement of the earlier traffic, broadcast at time i
DsqRec(i) == [nDenom |-> 1, masternodeOutPoint |-> i, nTime |-> i]

\* the rings after add_recent_dsq of DsqRec(1), ..., DsqRec(n) on empty rings
DsqFill(n) ==
    LET nd == Min(n, RECENT_DSQ_MAXLEN)
        nh == Min(n, RECENT_DSQ_HASHES_MAXLEN) IN
    DsqState([i \in 1..nd |-> DsqRec(n - i + 1)],
             [i \in 1..nh |-> dsq_hash(DsqRec(n - nh + i))],
             [i \in 1..nd |-> n - i + 1],
             [i \in 1..nh |-> n - nh + i],
             n + 1)

DsqOutpointInputs == {1, 52, MaxDsqFill + 2}
DsqDenomInputs == {1, 3}
DsqInputs ==
    {[nDenom |-> d, masternodeOutPoint |-> o, nTime |-> o] :
        d \in DsqDenomInputs, o \in DsqOutpointInputs}
MixesInputs == {{}, {<<1, DEFAULT_PORT>>}}

DsqInitAt(n) ==
    LET st == DsqFill(n) IN
    /\ recent_dsq = st.rd
    /\ recent_dsq_hashes = st.rh
    /\ dsq_stamp = st.ds
    /\ hash_stamp = st.hs
    /\ dsq_clock = st.clk
    /\ dsq_ret = None
    /\ dsq_trace = <<>>

AddRecentDsq(dsq) ==
    LET st == add_recent_dsq(DsqCur, dsq) IN
    /\ Len(dsq_trace) < MaxDsqOps
    /\ recent_dsq' = st.rd
    /\ recent_dsq_hashes' = st.rh
    /\ dsq_stamp' = st.ds
    /\ hash_stamp' = st.hs
    /\ dsq_clock' = st.clk
    /\ dsq_trace' = Append(dsq_trace, [op |-> "add", arg |-> dsq])
    /\ UNCHANGED dsq_ret

GetRecentDsq(recent_mixes_mns) ==
    LET r == get_recent_dsq(recent_dsq, recent_mixes_mns, now, 0) IN
    /\ Len(dsq_trace) < MaxDsqOps
    /\ recent_dsq' = SubSeq(recent_dsq, r.n + 1, Len(recent_dsq))
    /\ dsq_stamp' = SubSeq(dsq_stamp, r.n + 1, Len(dsq_stamp))
    /\ dsq_ret' = r.ret
    /\ dsq_trace' = Append(dsq_trace, [op |-> "get", arg |-> recent_mixes_mns])
    /\ UNCHANGED <<recent_dsq_hashes, hash_stamp, dsq_clock>>


(***************************************************************************)
(*                  Recent islocks data (lines 340-377)                    *)
(***************************************************************************)
KEEP_SEC == 900            \* clear_recent_islocks(keep_sec=900), line 370
KEEP_SEC_DIV == 15         \* keep_sec/15, line 372

IlThreads == {"t1", "t2"}  \* threads that call append_to_recent_islocks
Txids == {"tx1"}

\* list(filter(lambda x: now - x[1] <= keep_sec, ...)): the window's edge kept
FilterRecentInclusive(l, t) == SelectSeq(l, LAMBDA x : t - x.at <= KEEP_SEC)

\* list(filter(lambda x: now - x[1] < keep_sec, self.recent_islocks)), line 375
FilterRecent(l, t) == SelectSeq(l, LAMBDA x : t - x.at < KEEP_SEC)

\* whether a call made at time t returns at line 373
Throttled(t) == (t - recent_islocks_clear) * KEEP_SEC_DIV < KEEP_SEC

MaxIslocks == 3            \* records appended per behaviour
MaxTicks == 2              \* clock steps per behaviour
TickSteps == {30, 870}
\* the number of clock steps that led from 0 to t
TickCount(t) == t \div 870 + (t % 870) \div 30

IlInit ==
    /\ recent_islocks = <<>>
    /\ recent_islocks_clear = 0
    /\ il_pc = [t \in IlThreads |-> "idle"]
    /\ il_now = [t \in IlThreads |-> 0]
    /\ il_seen = <<>>

\* append_to_recent_islocks, lines 340-353: up to the end of the locked append
AppendToRecentIslocks(t, txid, quorum_found) ==
    /\ il_pc[t] = "idle"
    /\ Len(il_seen) < MaxIslocks
    /\ IF quorum_found
       THEN /\ recent_islocks' = Append(recent_islocks, [txid |-> txid, at |-> now])
            /\ il_seen' = Append(il_seen, [txid |-> txid, at |-> now])
            /\ il_pc' = [il_pc EXCEPT ![t] = "clear"]
       ELSE UNCHANGED <<recent_islocks, il_seen, il_pc>>
    /\ UNCHANGED <<recent_islocks_clear, il_now>>

\* clear_recent_islocks, lines 371-373: read the clock and the throttle stamp
ClearRecentIslocksEnter(t) ==
    /\ il_pc[t] = "clear"
    /\ il_now' = [il_now EXCEPT ![t] = IF Throttled(now) THEN 0 ELSE now]
    /\ il_pc' = [il_pc EXCEPT ![t] = IF Throttled(now) THEN "idle" ELSE "scan"]
    /\ UNCHANGED <<recent_islocks, recent_islocks_clear, il_seen>>

\* clear_recent_islocks, lines 374-377: the scan under recent_islocks_lock
ClearRecentIslocksScan(t) ==
    /\ il_pc[t] = "scan"
    /\ recent_islocks' = FilterRecent(recent_islocks, il_now[t])
    /\ recent_islocks_clear' = il_now[t]
    /\ il_pc' = [il_pc EXCEPT ![t] = "idle"]
    /\ il_now' = [il_now EXCEPT ![t] = 0]
    /\ UNCHANGED il_seen

\* The clock advances between calls: a call takes no time on this scale.
Tick(d) ==
    /\ TickCount(now + d) <= MaxTicks
    /\ \A t \in IlThreads : il_pc[t] = "idle"
    /\ now' = now + d

(***************************************************************************)
(*                     Sporks (DashSporks, lines 84-162)                   *)
(***************************************************************************)
\* TLC's integers have 32 bits and Y2099 = 4070908800 has 33: where sporks
\* are concerned, spork values and the clock count units of two seconds.
Y2099 == 2035454400        \* line 55: 4070908800 s

\* the numbers of the SporkID enumeration; 10020 is a member without an
\* entry in SPORKS_DEFAULTS
SporkIDValues ==
    {10001, 10002, 10004, 10005, 10008, 10011, 10014, 10015, 10016, 10018,
     10019, 10020}
SporkID_has_value(spork_id) == spork_id \in SporkIDValues

\* DashSporks.SPORKS_DEFAULTS, lines 89-101 (1000 is 500 units)
SPORKS_DEFAULTS ==
    (10001 :> 0) @@ (10002 :> 0) @@ (10004 :> 500) @@ (10005 :> Y2099) @@
    (10008 :> Y2099) @@ (10011 :> 0) @@ (10014 :> Y2099) @@ (10015 :> Y2099) @@
    (10016 :> Y2099) @@ (10018 :> Y2099) @@ (10019 :> Y2099)

\* dict.get(key): None when the key is missing
DictGet(d, k) == IF k \in DOMAIN d THEN Some(d[k]) ELSE None

\* set_spork that keeps the value a spork already has
set_spork_first_wins(gathered, contributors, spork_id, value, peer) ==
    [gathered_sporks |-> IF ~SporkID_has_value(spork_id)
                            \/ spork_id \in DOMAIN gathered THEN gathered
                         ELSE DictSet(gathered, spork_id, value),
     from_peers |-> contributors \cup {peer}]

\* DashSporks.set_spork, lines 109-115: the gathered table and the
\* contributors after the call
set_spork(gathered, contributors, spork_id, value, peer) ==
    [gathered_sporks |-> IF ~SporkID_has_value(spork_id) THEN gathered
                         ELSE DictSet(gathered, spork_id, value),
     from_peers |-> contributors \cup {peer}]

\* is_spork_active that takes a value of 0 for a missing one
is_spork_active_falsy(gathered, spork_id, t) ==
    LET stored == DictGet(gathered, spork_id)
        value == IF stored = None \/ stored = Some(0)
                 THEN DictGet(SPORKS_DEFAULTS, spork_id) ELSE stored IN
    IF value = None THEN FALSE ELSE Get(value) < t

\* DashSporks.is_spork_active, lines 117-126
is_spork_active(gathered, spork_id, t) ==
    LET stored == DictGet(gathered, spork_id)
        value == IF stored = None THEN DictGet(SPORKS_DEFAULTS, spork_id)
                 ELSE stored IN
    IF value = None THEN FALSE ELSE Get(value) < t

\* DashSporks.is_spork_default, lines 128-138
is_spork_default(gathered, spork_id) ==
    IF DictGet(gathered, spork_id) # None THEN FALSE
    ELSE IF DictGet(SPORKS_DEFAULTS, spork_id) = None THEN FALSE
    ELSE TRUE

\* DashSporks.get_spork_value, lines 140-147
get_spork_value(gathered, spork_id) ==
    LET stored == DictGet(gathered, spork_id) IN
    IF stored = None THEN DictGet(SPORKS_DEFAULTS, spork_id) ELSE stored

\* ---- inputs of the spork specification
MaxSporkOps == 2           \* set_spork calls per behaviour
SporkIdInputs == {10001, 10005, 10020, 7}
SporkValueInputs == {0, Y2099}
SporkPeers == {"peer1", "peer2"}
SporkNowInputs == {1, Y2099, Y2099 + 1}
NoQuery == [op |-> "none", spork_id |-> 0, ret |-> None]

NoGather == [peers_cnt |-> 0, gather_cnt |-> 0, contributors |-> 0, sent |-> None]

SporkInit ==
    /\ gathered_sporks = EmptyDict
    /\ from_peers = {}
    /\ spork_trace = <<>>
    /\ spork_ret = NoQuery
    /\ sporks_done = {}
    /\ gather_ret = NoGather

SetSpork(spork_id, value, peer) ==
    /\ Len(spork_trace) < MaxSporkOps
    /\ LET r == set_spork(gathered_sporks, from_peers, spork_id, value, peer) IN
       /\ gathered_sporks' = r.gathered_sporks
       /\ from_peers' = r.from_peers
    /\ spork_trace' = Append(spork_trace,
                             [spork_id |-> spork_id, value |-> value, peer |-> peer])
    /\ spork_ret' = NoQuery

IsSporkActive(spork_id) ==
    /\ spork_ret' = [op |-> "is_spork_active", spork_id |-> spork_id,
                     ret |-> Some(is_spork_active(gathered_sporks, spork_id, now))]
    /\ UNCHANGED <<gathered_sporks, from_peers, spork_trace>>

IsSporkDefault(spork_id) ==
    /\ spork_ret' = [op |-> "is_spork_default", spork_id |-> spork_id,
                     ret |-> Some(is_spork_default(gathered_sporks, spork_id))]
    /\ UNCHANGED <<gathered_sporks, from_peers, spork_trace>>

GetSporkValue(spork_id) ==
    /\ spork_ret' = [op |-> "get_spork_value", spork_id |-> spork_id,
                     ret |-> Some(get_spork_value(gathered_sporks, spork_id))]
    /\ UNCHANGED <<gathered_sporks, from_peers, spork_trace>>

\* ---- _gather_sporks, lines 557-572

\* Python's round() on num/den: to the nearest integer, a tie to the even one
round(num, den) ==
    LET q == num \div den
        r == num % den IN
    IF 2 * r < den THEN q
    ELSE IF 2 * r > den THEN q + 1
    ELSE IF q % 2 = 0 THEN q ELSE q + 1

\* lines 563-566: round(peers_cnt * 0.51), 0.51 taken as 51/100
gather_cnt(peers_cnt) ==
    IF peers_cnt <= 2 THEN peers_cnt
    ELSE round(51 * peers_cnt, 100)

\* one iteration of the loop of _gather_sporks with at least one live peer,
\* lines 559-572; p is the peer get_random_peer returns, lines 545-555
GatherSporks(p) ==
    /\ p \in peers
    /\ LET peers_cnt == Cardinality(peers)
           ask == Cardinality(from_peers) < gather_cnt(peers_cnt)
           send == ask /\ p \notin sporks_done IN
       /\ sporks_done' = IF send THEN sporks_done \cup {p} ELSE sporks_done
       /\ gather_ret' = [peers_cnt |-> peers_cnt,
                         gather_cnt |-> gather_cnt(peers_cnt),
                         contributors |-> Cardinality(from_peers),
                         sent |-> IF send THEN Some(p) ELSE None]
    /\ UNCHANGED <<gathered_sporks, from_peers, spork_trace, spork_ret>>

\* the iteration with no live peer, lines 559-562: sleep and continue
GatherSporksIdle ==
    /\ peers = {}
    /\ gather_ret' = NoGather
    /\ UNCHANGED <<gathered_sporks, from_peers, spork_trace, spork_ret,
                   sporks_done>>

\* a peer that was sent getsporks reports a spork: set_spork, lines 109-115
PeerReportsSpork(peer, spork_id, value) ==
    /\ peer \in sporks_done
    /\ LET r == set_spork(gathered_sporks, from_peers, spork_id, value, peer) IN
       /\ gathered_sporks' = r.gathered_sporks
       /\ from_peers' = r.from_peers
    /\ UNCHANGED <<spork_trace, spork_ret, gatherVars>>

(***************************************************************************)
(*               resolve_dns_over_https (lines 723-740)                    *)
(***************************************************************************)
\* lines 62-65
DNS_OVER_HTTPS_ENDPOINTS ==
    <<"https://dns.google.com/resolve", "https://cloudflare-dns.com/dns-query">>

\* What an endpoint does with the request: session.get raises, result.json
\* raises, or the response is a JSON object, here the value of its 'Answer'
\* member: None when it has none, else the list of the 'data' of each answer.
TransportError == [kind |-> "transport error", answer |-> None]
ParseError == [kind |-> "parse error", answer |-> None]
Response(answer) == [kind |-> "json", answer |-> answer]

\* lines 730-737: the addresses after the try statement for one endpoint
addresses_of(outcome) ==
    IF outcome.kind # "json" THEN <<>>
    ELSE IF outcome.answer = None \/ outcome.answer = Some(<<>>) THEN <<>>
    ELSE Get(outcome.answer)

\* the loop that goes through every endpoint (no break at line 738)
resolve_done_no_break(addresses, endpoint) ==
    endpoint = Len(DNS_OVER_HTTPS_ENDPOINTS)

\* lines 727, 738-739: whether the loop ends after this endpoint
resolve_done(addresses, endpoint) ==
    addresses # <<>> \/ endpoint = Len(DNS_OVER_HTTPS_ENDPOINTS)

NoDnsCall ==
    [pc |-> "idle", hostname |-> "", endpoint |-> 0, queried |-> <<>>,
     ret |-> None]

DnsInit == dns_call = NoDnsCall

\* resolve_dns_over_https is called: lines 723-727
ResolveDnsCall(hostname) ==
    /\ dns_call.pc = "idle"
    /\ dns_call' = [pc |-> "query", hostname |-> hostname, endpoint |-> 1,
                    queried |-> <<>>, ret |-> None]

\* one turn of the loop, lines 727-740: the endpoint is queried and the
\* call returns or goes to the next endpoint
ResolveDnsQuery(outcome) ==
    /\ dns_call.pc = "query"
    /\ LET addresses == addresses_of(outcome)
           queried == Append(dns_call.queried,
                             [endpoint |-> DNS_OVER_HTTPS_ENDPOINTS[dns_call.endpoint],
                              outcome |-> outcome]) IN
       dns_call' =
          IF resolve_done(addresses, dns_call.endpoint)
          THEN [dns_call EXCEPT !.pc = "idle", !.queried = queried,
                                !.ret = Some(addresses)]
          ELSE [dns_call EXCEPT !.endpoint = @ + 1, !.queried = queried]

\* ---- inputs of the resolver specification
DnsSeeds == {"dnsseed.dash.org", "dnsseed.dashdot.io", "testnet-seed.dashdot.io"}
DnsIps == {<<"10.0.0.1">>, <<"10.0.0.1", "10.0.0.2">>, <<"10.0.0.3">>}
DnsOutcomes ==
    {TransportError, ParseError, Response(None), Response(Some(<<>>))}
       \cup {Response(Some(ips)) : ips \in DnsIps}

(***************************************************************************)
(*                        Ban list (lines 281-321)                         *)
(***************************************************************************)
\* A peer is the string 'host:port'; a dash_peers entry may lack the port.
Hosts == {"h1", "h2", "h3"}
Addr(h) == [host |-> h, port |-> DEFAULT_PORT]
Peers == {Addr(h) : h \in Hosts}


\* banlist.gz is missing, unreadable, or holds a JSON document
Missing == [kind |-> "missing", doc |-> {}]
Corrupt == [kind |-> "corrupt", doc |-> {}]
Document(doc) == [kind |-> "json", doc |-> doc]

\* json.dumps of one ban record: each value by its JSON type
JsonNumber(v) == <<"number", v>>
JsonString(v) == <<"string", v>>
JsonNull == <<"null">>
JsonOfRecord(r) ==
    {<<"at", JsonNumber(r.at)>>,
     <<"msg", JsonString(r.msg)>>,
     <<"till", IF r.till = None THEN JsonNull ELSE JsonNumber(Get(r.till))>>,
     <<"ua", JsonString(r.ua)>>}

\* json.dumps(self.banlist, indent=4), line 298: an object, member by member
json_dumps(d) == {<<k, JsonOfRecord(d[k])>> : k \in DOMAIN d}

JsonMember(obj, key) == (CHOOSE m \in obj : m[1] = key)[2]
\* the Python value of a JSON value; null gives None
PyOfJson(j) == IF j = JsonNull THEN None ELSE Some(j[2])
RecordOfJson(obj) ==
    [at |-> Get(PyOfJson(JsonMember(obj, "at"))),
     msg |-> Get(PyOfJson(JsonMember(obj, "msg"))),
     till |-> PyOfJson(JsonMember(obj, "till")),
     ua |-> Get(PyOfJson(JsonMember(obj, "ua")))]

\* json.loads(data.decode('utf-8')), line 288
json_loads(doc) ==
    [k \in {m[1] : m \in doc} |-> RecordOfJson(JsonMember(doc, k))]

\* DashNet._read_banlist, lines 281-291
_read_banlist(dir, file) ==
    IF ~dir THEN EmptyDict
    ELSE IF file.kind # "json" THEN EmptyDict
    ELSE json_loads(file.doc)

\* DashNet._save_banlist, lines 293-302: the file after the call.  The write
\* succeeds, fails before the file is opened, or fails after gzip.open
\* truncated it.
SaveOutcomes == {"ok", "fail_early", "fail_late"}
_save_banlist(dir, bl, file, outcome) ==
    IF ~dir THEN file
    ELSE IF outcome = "ok" THEN Document(json_dumps(bl))
    ELSE IF outcome = "fail_early" THEN file
    ELSE Corrupt

\* the ban record of lines 307-312
BanRecord(t, msg, till, ua) == [at |-> t, msg |-> msg, till |-> till, ua |-> ua]

\* _remove_banned_peer that forgets to save
remove_banned_peer_no_save(peer, outcome) ==
    /\ banlist' = IF peer \in DOMAIN banlist THEN DictDel(banlist, peer) ELSE banlist
    /\ UNCHANGED <<banfile, save_failed, data_dir>>

\* DashNet._add_banned_peer, lines 304-314 (under banlist_lock)
add_banned_peer(peer, msg, till, ua, outcome) ==
    /\ banlist' = DictSet(banlist, peer, BanRecord(now, msg, till, ua))
    /\ banfile' = _save_banlist(data_dir, banlist', banfile, outcome)
    /\ save_failed' = (save_failed \/ (data_dir /\ outcome # "ok"))
    /\ UNCHANGED data_dir

\* DashNet._remove_banned_peer, lines 316-321 (under banlist_lock)
remove_banned_peer(peer, outcome) ==
    /\ IF peer \in DOMAIN banlist
       THEN /\ banlist' = DictDel(banlist, peer)
            /\ banfile' = _save_banlist(data_dir, banlist', banfile, outcome)
            /\ save_failed' = (save_failed \/ (data_dir /\ outcome # "ok"))
       ELSE UNCHANGED <<banlist, banfile, save_failed>>
    /\ UNCHANGED data_dir

\* ---- inputs of the ban-list specification
MaxBanOps == 3
BanMsgs == {"bad message", "misbehaving"}
BanTills == {None, Some(86400)}
UserAgents == {"/Dash Core:0.14.0/"}

\* what an earlier session left in banlist.gz
BanFileInputs ==
    {Missing, Corrupt, Document(json_dumps(EmptyDict)),
     Document(json_dumps(DictSet(EmptyDict, Addr("h1"),
                  BanRecord(0, "misbehaving", None, "/Dash Core:0.14.0/"))))}

BanInit ==
    /\ data_dir \in BOOLEAN
    /\ banfile \in BanFileInputs
    /\ banlist = _read_banlist(data_dir, banfile)
    /\ save_failed = FALSE
    /\ ban_trace = <<>>

AddBannedPeer(peer, msg, till, ua, outcome) ==
    /\ Len(ban_trace) < MaxBanOps
    /\ add_banned_peer(peer, msg, till, ua, outcome)
    /\ ban_trace' = Append(ban_trace, [op |-> "add", peer |-> peer])

RemoveBannedPeer(peer, outcome) ==
    /\ Len(ban_trace) < MaxBanOps
    /\ remove_banned_peer(peer, outcome)
    /\ ban_trace' = Append(ban_trace, [op |-> "remove", peer |-> peer])

(***************************************************************************)
(*                 Configuration and construction                          *)
(***************************************************************************)
MIN_PEERS_LIMIT == 2       \* line 57
MAX_PEERS_LIMIT == 8       \* line 58
MAX_PEERS_DEFAULT == 2     \* line 59

\* config.get(key, default): the key may be absent
ConfigGet(cfg, key, default) == IF cfg[key] = None THEN default ELSE Get(cfg[key])

\* f'{p}:{self.default_port}' for an entry without ':', lines 252-253
\* (port 0 stands for an entry without a port)
WithPort(p) == IF p.port = 0 THEN [host |-> p.host, port |-> DEFAULT_PORT] ELSE p

\* DashNet.read_conf, lines 241-254 (dash_peers modifiable in the config)
read_conf(cfg) ==
    LET static == ConfigGet(cfg, "dash_use_static_peers", FALSE)
        dpeers == ConfigGet(cfg, "dash_peers", <<>>) IN
    [run_dash_net |-> ConfigGet(cfg, "run_dash_net", TRUE),
     dash_peers |-> dpeers,
     use_static_peers |-> static,
     static_peers |-> IF static THEN [i \in 1..Len(dpeers) |-> WithPort(dpeers[i])]
                      ELSE <<>>]

\* ---- inputs: what the user may have in the configuration
StaticList == <<[host |-> "h1", port |-> 0], Addr("h2")>>
Proxies == {NoProxy, "socks5"}
MaxPeersInputs == {0, 3, 100}
ConfigShapes ==
    {[run_dash_net |-> None, dash_peers |-> Some(<<>>),
      dash_use_static_peers |-> None],
     [run_dash_net |-> None, dash_peers |-> Some(StaticList),
      dash_use_static_peers |-> Some(TRUE)],
     [run_dash_net |-> Some(FALSE), dash_peers |-> Some(<<>>),
      dash_use_static_peers |-> None]}
ConfigInputs ==
    {[run_dash_net |-> c.run_dash_net, dash_peers |-> c.dash_peers,
      dash_use_static_peers |-> c.dash_use_static_peers, dash_max_peers |-> mp] :
        c \in ConfigShapes, mp \in {None} \cup {Some(x) : x \in MaxPeersInputs}}

\* DashNet.__init__, lines 189-239, for the pool
NoFind == [dns |-> FALSE]
FindInit ==
    /\ getaddr_done = {}
    /\ getaddr_sent = [p \in Peers |-> 0]
    /\ find_ret = NoFind

PoolInit ==
    /\ config \in ConfigInputs
    /\ net_proxy = NoProxy
    /\ calls = 0
    /\ run_dash_net = read_conf(config).run_dash_net
    /\ dash_peers = read_conf(config).dash_peers
    /\ use_static_peers = read_conf(config).use_static_peers
    /\ static_peers = read_conf(config).static_peers
    /\ proxy = NoProxy
    /\ max_peers = ConfigGet(config, "dash_max_peers", MAX_PEERS_DEFAULT)
    /\ main_taskgroup = NoGroup
    /\ peers = {}
    /\ connecting = {}
    /\ peers_queue = None
    /\ found_peers = {}
    /\ disconnected_static = EmptyDict
    /\ mt_pc = "none"
    /\ gs_pc = "none"
    /\ ma_pc = "none"
    /\ attempts = {}
    /\ sp_pc = "idle"
    /\ sp_snap = None
    /\ stop_pc = "idle"
    /\ restart_lock = NoHolder
    /\ start_failed = FALSE
    /\ failed_at = [p \in Peers |-> 0]
    /\ FindInit
    /\ peers_updated = [p \in Peers |-> 0]

\* the pool of a default configuration, never started
PoolDefault ==
    /\ config = [run_dash_net |-> None, dash_peers |-> Some(<<>>),
                 dash_use_static_peers |-> None, dash_max_peers |-> None]
    /\ net_proxy = NoProxy
    /\ PoolInit

(***************************************************************************)
(*                          The peer pool                                  *)
(***************************************************************************)
RECONNECT_INTERVAL == 10   \* line 531
MaxCalls == 3              \* calls made on the pool from outside
MaxPoolTicks == 1          \* clock steps of the pool, RECONNECT_INTERVAL each

\* one more call from outside
Call == calls < MaxCalls /\ calls' = calls + 1

\* DashNet.peers_total, lines 487-489
peers_total_of(conn) == Cardinality(conn \cup peers)
peers_total == peers_total_of(connecting)

\* what queue_peers works on: connecting, the queue, disconnected_static
QueueState(conn, q, disc) == [connecting |-> conn, queue |-> q, disc |-> disc]

\* DashNet._start_peer, lines 616-619
_start_peer(st, peer) ==
    IF peer \notin peers /\ peer \notin st.connecting
    THEN [st EXCEPT !.connecting = @ \cup {peer}, !.queue = Append(@, peer)]
    ELSE st

\* DashNet.queue_peers, lines 523-535: the loop over static_peers from index i
RECURSIVE queue_peers_static(_, _)
queue_peers_static(st, i) ==
    IF i > Len(static_peers) THEN st
    ELSE IF peers_total_of(st.connecting) >= max_peers THEN st
    ELSE LET peer == static_peers[i] IN
         IF peer \in peers \/ peer \in st.connecting
         THEN queue_peers_static(st, i + 1)
         ELSE IF peer \in DOMAIN st.disc /\ st.disc[peer] # 0
              THEN IF now - st.disc[peer] < RECONNECT_INTERVAL
                   THEN queue_peers_static(st, i + 1)
                   ELSE queue_peers_static(
                           _start_peer([st EXCEPT !.disc = DictDel(@, peer)], peer),
                           i + 1)
              ELSE queue_peers_static(_start_peer(st, peer), i + 1)

\* DashNet.queue_peers, lines 538-540: what the dynamic mode picks from
available_peers == (found_peers \ (connecting \cup peers)) \ DOMAIN banlist

\* DashNet.find_peers, lines 503-506
peers_union == ((peers \cup connecting) \cup found_peers) \ DOMAIN banlist

\* the ban outcome a DashPeer carries when it has one
BanMsg == "misbehaving"
BanTill == Some(86400)
UserAgent == "/Dash Core:0.14.0/"

\* _close_peer that pops the entry of the address whichever DashPeer it holds
_close_peer_any_handle(peer, registered) ==
    /\ peers' = peers \ {peer}
    /\ getaddr_done' = getaddr_done \ {peer}
    /\ getaddr_sent' = [getaddr_sent EXCEPT ![peer] = 0]
    /\ peers_updated' = IF peer \in peers THEN [peers_updated EXCEPT ![peer] = @ - 1]
                        ELSE peers_updated

\* DashNet._close_peer, lines 621-626; registered says whether the DashPeer
\* is the one self.peers holds for the address
_close_peer(peer, registered) ==
    /\ peers' = IF registered THEN peers \ {peer} ELSE peers
    /\ getaddr_done' = IF registered THEN getaddr_done \ {peer} ELSE getaddr_done
    /\ getaddr_sent' = IF registered THEN [getaddr_sent EXCEPT ![peer] = 0]
                       ELSE getaddr_sent
    /\ peers_updated' = IF registered THEN [peers_updated EXCEPT ![peer] = @ - 1]
                        ELSE peers_updated

\* connection_down that looks at the ban reason before the static list
connection_down_ban_first(peer, registered, ban_msg) ==
    /\ _close_peer(peer, registered)
    /\ IF ban_msg
       THEN /\ add_banned_peer(peer, BanMsg, BanTill, UserAgent, "ok")
            /\ UNCHANGED disconnected_static
       ELSE IF use_static_peers /\ InSeq(peer, static_peers)
            THEN /\ disconnected_static' = DictSet(disconnected_static, peer, now)
                 /\ UNCHANGED banVars
            ELSE UNCHANGED <<banVars, disconnected_static>>

\* DashNet.connection_down, lines 628-634
connection_down(peer, registered, ban_msg) ==
    /\ _close_peer(peer, registered)
    /\ IF use_static_peers /\ InSeq(peer, static_peers)
       THEN /\ disconnected_static' = DictSet(disconnected_static, peer, now)
            /\ UNCHANGED banVars
       ELSE IF ban_msg
            THEN /\ add_banned_peer(peer, BanMsg, BanTill, UserAgent, "ok")
                 /\ UNCHANGED disconnected_static
            ELSE UNCHANGED <<banVars, disconnected_static>>

\* ---- _maintain_peers, lines 591-614, from one suspension point to the next

\* find_peers, lines 515-518, on the peer p get_random_peer returned
getaddr(p, active) ==
    LET send == p \notin getaddr_done /\ ~active IN
    /\ getaddr_done' = IF send THEN getaddr_done \cup {p} ELSE getaddr_done
    /\ getaddr_sent' = IF send THEN [getaddr_sent EXCEPT ![p] = @ + 1]
                       ELSE getaddr_sent
    /\ UNCHANGED find_ret

\* find_peers, lines 502-518; new_peers is what the DNS seeds answered, p
\* the peer get_random_peer returns, active what p.is_active() says; a
\* message is taken as sent when send_msg returns
MaintainFindPeers(new_peers) ==
    /\ mt_pc = "find"
    /\ IF use_static_peers
       THEN mt_pc' = "queue" /\ UNCHANGED <<found_peers, findVars>>
       ELSE LET c == Cardinality(peers_union)
                run == [dns |-> c < 2] IN
            IF c < 2
            THEN /\ found_peers' = found_peers \cup new_peers
                 /\ find_ret' = run
                 /\ mt_pc' = "queue"
                 /\ UNCHANGED <<getaddr_done, getaddr_sent>>
            ELSE IF c < max_peers
                 THEN IF peers = {}
                      THEN /\ mt_pc' = "find_wait"
                           /\ find_ret' = run
                           /\ UNCHANGED <<found_peers, getaddr_done, getaddr_sent>>
                      ELSE /\ mt_pc' = "queue"
                           /\ \E p \in peers, active \in BOOLEAN :
                                 LET send == p \notin getaddr_done /\ ~active IN
                                 /\ getaddr_done' = IF send THEN getaddr_done \cup {p}
                                                    ELSE getaddr_done
                                 /\ getaddr_sent' =
                                       IF send THEN [getaddr_sent EXCEPT ![p] = @ + 1]
                                       ELSE getaddr_sent
                                 /\ find_ret' = run
                           /\ UNCHANGED found_peers
                 ELSE /\ mt_pc' = "queue"
                      /\ find_ret' = run
                      /\ UNCHANGED <<found_peers, getaddr_done, getaddr_sent>>
    /\ UNCHANGED <<now, dsqVars, ilVars, sporkVars, dns_call, peers_updated, banVars, ban_trace, failed_at, cfgVars, confVars, proxy,
                   max_peers, main_taskgroup, peers, connecting, peers_queue,
                   disconnected_static, gs_pc, ma_pc, attempts, sp_pc,
                   sp_snap, stop_pc, restart_lock, start_failed>>

\* get_random_peer called by find_peers, lines 547-550: sleeping until a peer
\* is live, then lines 516-518 on the peer it returns
MaintainFindWait ==
    /\ mt_pc = "find_wait"
    /\ peers # {}
    /\ mt_pc' = "queue"
    /\ \E p \in peers, active \in BOOLEAN : getaddr(p, active)
    /\ UNCHANGED <<now, dsqVars, ilVars, sporkVars, dns_call, peers_updated, banVars, ban_trace, failed_at, cfgVars, confVars, proxy,
                   max_peers, main_taskgroup, peers, connecting, peers_queue,
                   found_peers, disconnected_static, gs_pc, ma_pc, attempts, sp_pc, sp_snap, stop_pc, restart_lock, start_failed>>

\* queue_peers, lines 520-543: static mode runs through; dynamic mode queues
\* one peer and sleeps 0.1 s
MaintainQueuePeers ==
    /\ mt_pc = "queue"
    /\ IF peers_total >= max_peers
       THEN /\ mt_pc' = "launch"
            /\ UNCHANGED <<connecting, peers_queue, disconnected_static>>
       ELSE IF use_static_peers
            THEN LET st == queue_peers_static(
                              QueueState(connecting, Get(peers_queue),
                                         disconnected_static), 1) IN
                 /\ connecting' = st.connecting
                 /\ peers_queue' = Some(st.queue)
                 /\ disconnected_static' = st.disc
                 /\ mt_pc' = "launch"
            ELSE /\ IF available_peers = {}
                    THEN UNCHANGED <<connecting, peers_queue>>
                    ELSE \E peer \in available_peers :
                            LET st == _start_peer(
                                         QueueState(connecting, Get(peers_queue),
                                                    disconnected_static), peer) IN
                            /\ connecting' = st.connecting
                            /\ peers_queue' = Some(st.queue)
                 /\ mt_pc' = "queue"
                 /\ UNCHANGED disconnected_static
    /\ failed_at' = [p \in Peers |-> IF p \in connecting' THEN 0 ELSE failed_at[p]]
    /\ UNCHANGED <<now, dsqVars, ilVars, sporkVars, dns_call, findVars, peers_updated, banVars, ban_trace, cfgVars, confVars, proxy,
                   max_peers, main_taskgroup, peers, found_peers, gs_pc, ma_pc,
                   attempts, sp_pc, sp_snap, stop_pc, restart_lock,
                   start_failed>>

\* launch_already_queued_up_new_peers, lines 592-595, and the start of each
\* _run_new_peer task, lines 639-643
MaintainLaunch ==
    /\ mt_pc = "launch"
    /\ attempts' = attempts \cup SeqToSet(Get(peers_queue))
    /\ peers_queue' = Some(<<>>)
    /\ mt_pc' = "excess"
    /\ UNCHANGED <<now, dsqVars, ilVars, sporkVars, dns_call, findVars, peers_updated, banVars, ban_trace, failed_at, cfgVars, confVars, proxy,
                   max_peers, main_taskgroup, peers, connecting, found_peers,
                   disconnected_static, gs_pc, ma_pc, sp_pc, sp_snap, stop_pc,
                   restart_lock, start_failed>>

\* disconnect_excess_peers, lines 597-601
MaintainDisconnectExcess ==
    /\ mt_pc = "excess"
    /\ IF peers_total - max_peers > 0
       THEN IF peers = {}
            THEN /\ mt_pc' = "excess_wait"
                 /\ UNCHANGED <<peers, getaddr_done, getaddr_sent, peers_updated,
                            disconnected_static, banVars>>
            ELSE /\ \E peer \in peers : connection_down(peer, TRUE, FALSE)
                 /\ mt_pc' = "excess"
       ELSE /\ mt_pc' = "sleep"
            /\ UNCHANGED <<peers, getaddr_done, getaddr_sent, peers_updated,
                            disconnected_static, banVars>>
    /\ UNCHANGED <<now, dsqVars, ilVars, sporkVars, dns_call, find_ret, ban_trace, failed_at, cfgVars, confVars, proxy,
                   max_peers, main_taskgroup, connecting, peers_queue, found_peers,
                   gs_pc, ma_pc, attempts, sp_pc, sp_snap, stop_pc,
                   restart_lock, start_failed>>

\* get_random_peer called by disconnect_excess_peers: sleeping until a peer
\* is live, then connection_down of the peer it returns
MaintainExcessWait ==
    /\ mt_pc = "excess_wait"
    /\ peers # {}
    /\ \E peer \in peers : connection_down(peer, TRUE, FALSE)
    /\ mt_pc' = "excess"
    /\ UNCHANGED <<now, dsqVars, ilVars, sporkVars, dns_call, find_ret, ban_trace, failed_at, cfgVars, confVars, proxy,
                   max_peers, main_taskgroup, connecting, peers_queue, found_peers,
                   gs_pc, ma_pc, attempts, sp_pc, sp_snap, stop_pc,
                   restart_lock, start_failed>>

\* await asyncio.sleep(0.1), line 614
MaintainSleep ==
    /\ mt_pc = "sleep"
    /\ mt_pc' = "find"
    /\ UNCHANGED <<now, dsqVars, ilVars, sporkVars, dns_call, findVars, peers_updated, banVars, ban_trace, failed_at, cfgVars, confVars, proxy,
                   max_peers, main_taskgroup, peers, connecting, peers_queue,
                   found_peers, disconnected_static, gs_pc, ma_pc, attempts, sp_pc, sp_snap, stop_pc, restart_lock, start_failed>>

\* A cancellation is delivered to the _maintain_peers task, lines 602-614.
\* Inside the try statement (find_peers, queue_peers, the launch, the
\* disconnection of excess peers) it is suppressed unless the group is None
\* or closed, and the loop goes to the sleep of line 614; in that sleep,
\* outside the try statement, it ends the task.
MaintainCancelled ==
    /\ mt_pc # "none"
    /\ Call
    /\ mt_pc' = IF mt_pc = "sleep" THEN "none"
                ELSE IF main_taskgroup \in {NoGroup, "closed"} THEN "none"
                ELSE "sleep"
    /\ UNCHANGED <<now, dsqVars, ilVars, sporkVars, dns_call, findVars, peers_updated, banVars, ban_trace,
                   failed_at, config, net_proxy, confVars, proxy, max_peers,
                   main_taskgroup, peers, connecting, peers_queue, found_peers,
                   disconnected_static, gs_pc, ma_pc, attempts, sp_pc, sp_snap,
                   stop_pc, restart_lock, start_failed>>

\* ---- _run_new_peer, lines 636-658

\* _run_new_peer whose finally clause does not remove the address
RunNewPeerReady_keeps_connecting(peer) ==
    /\ peer \in attempts
    /\ peers' = peers \cup {peer}
    /\ peers_updated' = [peers_updated EXCEPT ![peer] = @ + 1]
    /\ attempts' = attempts \ {peer}
    /\ UNCHANGED <<now, dsqVars, ilVars, sporkVars, dns_call, findVars, banVars, ban_trace, failed_at, cfgVars, confVars, proxy,
                   max_peers, main_taskgroup, connecting, peers_queue, found_peers,
                   disconnected_static, mt_pc, gs_pc, ma_pc, sp_pc,
                   sp_snap, stop_pc, restart_lock, start_failed>>

\* dash_peer.ready is set: lines 649-656
RunNewPeerReady(peer) ==
    /\ peer \in attempts
    /\ peers' = peers \cup {peer}
    /\ connecting' = connecting \ {peer}
    /\ peers_updated' = [peers_updated EXCEPT ![peer] = @ + 1]
    /\ attempts' = attempts \ {peer}
    /\ UNCHANGED <<now, dsqVars, ilVars, sporkVars, dns_call, findVars, banVars, ban_trace, failed_at, cfgVars, confVars, proxy,
                   max_peers, main_taskgroup, peers_queue, found_peers,
                   disconnected_static, mt_pc, gs_pc, ma_pc, sp_pc,
                   sp_snap, stop_pc, restart_lock, start_failed>>

\* asyncio.TimeoutError or asyncio.CancelledError: lines 644-647, 652-656
RunNewPeerFailed(peer) ==
    /\ peer \in attempts
    /\ connecting' = connecting \ {peer}
    /\ attempts' = attempts \ {peer}
    /\ failed_at' = IF use_static_peers THEN [failed_at EXCEPT ![peer] = now]
                    ELSE failed_at
    /\ UNCHANGED <<now, dsqVars, ilVars, sporkVars, dns_call, findVars, peers_updated, banVars, ban_trace, cfgVars, confVars, proxy,
                   max_peers, main_taskgroup, peers, peers_queue, found_peers,
                   disconnected_static, mt_pc, gs_pc, ma_pc, sp_pc,
                   sp_snap, stop_pc, restart_lock, start_failed>>

\* the exception of a connection attempt reaches the group and closes it
RunNewPeerRaised_propagates(peer) ==
    /\ peer \in attempts
    /\ main_taskgroup' = "closed"
    /\ mt_pc' = "none"
    /\ gs_pc' = "none"
    /\ ma_pc' = "none"
    /\ attempts' = {}
    /\ UNCHANGED <<now, dsqVars, ilVars, sporkVars, dns_call, findVars, peers_updated, banVars, ban_trace, failed_at,
                   cfgVars, confVars, proxy, max_peers, peers,
                   connecting, peers_queue, found_peers, disconnected_static,
                   sp_pc, sp_snap, stop_pc, restart_lock, start_failed>>

\* DashPeer(self, peer, self.proxy) or get_network_timeout_seconds() raises,
\* lines 639-641, before the try statement: ignore_exceptions ends the task
RunNewPeerRaised(peer) ==
    /\ peer \in attempts
    /\ attempts' = attempts \ {peer}
    /\ UNCHANGED <<now, dsqVars, ilVars, sporkVars, dns_call, findVars, peers_updated, banVars, ban_trace, failed_at,
                   cfgVars, confVars, proxy, max_peers, main_taskgroup, peers,
                   connecting, peers_queue, found_peers, disconnected_static,
                   mt_pc, gs_pc, ma_pc, sp_pc, sp_snap, stop_pc, restart_lock,
                   start_failed>>

\* connection_down called by a DashPeer for itself: the one registered in
\* self.peers, or another one for the address (a mixing peer, a peer whose
\* connection attempt has not finished, one that was replaced)
ConnectionDown(peer, registered, ban_msg) ==
    /\ registered => peer \in peers
    /\ Call
    /\ UNCHANGED <<now, dsqVars, ilVars, sporkVars, dns_call, find_ret, ban_trace, failed_at, config, net_proxy, confVars, proxy,
                   max_peers, main_taskgroup, connecting, peers_queue, found_peers,
                   taskVars, sp_pc, sp_snap, stop_pc, restart_lock,
                   start_failed>>
    /\ connection_down(peer, registered, ban_msg)

\* ---- the lifecycle: _start, stop, set_parameters, the max_peers setter

\* DashNet._start, lines 434-458, on the supervisor, the connecting set and the
\* queue it finds: what it leaves behind, whether it spawned the three tasks,
\* and whether one of its assertions failed
_start(mtg, conn, pq) ==
    LET conf == read_conf(config)
        left == [conf |-> conf, main_taskgroup |-> mtg, peers_queue |-> pq,
                 proxy |-> proxy, disconnected_static |-> disconnected_static,
                 spawned |-> FALSE, failed |-> FALSE] IN
    IF ~conf.run_dash_net THEN left
    ELSE IF mtg # NoGroup THEN [left EXCEPT !.failed = TRUE]
    ELSE IF peers # {} \/ conn # {} \/ pq # None
         THEN [left EXCEPT !.main_taskgroup = "open", !.failed = TRUE]
         ELSE [left EXCEPT !.main_taskgroup = "open", !.peers_queue = Some(<<>>),
                           !.proxy = net_proxy, !.disconnected_static = EmptyDict,
                           !.spawned = TRUE]

\* the state after _start
Started(r) ==
    /\ run_dash_net' = r.conf.run_dash_net
    /\ dash_peers' = r.conf.dash_peers
    /\ use_static_peers' = r.conf.use_static_peers
    /\ static_peers' = r.conf.static_peers
    /\ main_taskgroup' = r.main_taskgroup
    /\ peers_queue' = r.peers_queue
    /\ proxy' = r.proxy
    /\ disconnected_static' = r.disconnected_static
    /\ mt_pc' = IF r.spawned THEN "find" ELSE mt_pc
    /\ gs_pc' = IF r.spawned THEN "run" ELSE gs_pc
    /\ ma_pc' = IF r.spawned THEN "run" ELSE ma_pc
    /\ start_failed' = r.failed

\* DashNet.start, lines 460-461: _start outside the restart lock
Start ==
    /\ Call
    /\ Started(_start(main_taskgroup, connecting, peers_queue))
    /\ UNCHANGED <<now, dsqVars, ilVars, sporkVars, dns_call, findVars, peers_updated, banVars, ban_trace, failed_at, config, net_proxy,
                   max_peers,
                   peers, connecting, found_peers, attempts, sp_pc,
                   sp_snap, stop_pc, restart_lock>>

\* main_taskgroup.cancel_remaining(), lines 468-473: the supervisor is closed,
\* the three tasks end and every connection attempt takes its cancel branch
\* (lines 644-647, 652-656)
Cancelled ==
    /\ main_taskgroup' = "closed"
    /\ mt_pc' = "none"
    /\ gs_pc' = "none"
    /\ ma_pc' = "none"
    /\ attempts' = {}
    /\ connecting' = connecting \ attempts
    /\ failed_at' = IF use_static_peers
                    THEN [p \in Peers |-> IF p \in attempts THEN now ELSE failed_at[p]]
                    ELSE failed_at

\* the tasks main() supervises, lines 448-457
SupervisedTasks == {"_maintain_peers", "_gather_sporks", "_monitor_activity"}
task_pc(task) ==
    IF task = "_maintain_peers" THEN mt_pc
    ELSE IF task = "_gather_sporks" THEN gs_pc
    ELSE ma_pc

\* an exception other than a cancellation leaves one of the three tasks of
\* main(), lines 448-457: the group is left, which closes it and cancels the
\* remaining tasks and connection attempts; main() logs and raises; stop()
\* is not run, so self.main_taskgroup keeps the closed group
TaskRaised(task) ==
    /\ task_pc(task) # "none"
    /\ main_taskgroup = "open"
    /\ Call
    /\ Cancelled
    /\ UNCHANGED <<now, dsqVars, ilVars, sporkVars, dns_call, findVars, peers_updated, banVars, ban_trace,
                   config, net_proxy, confVars, proxy, max_peers, peers,
                   peers_queue, found_peers, disconnected_static, sp_pc, sp_snap,
                   stop_pc, restart_lock, start_failed>>

\* DashNet.stop, lines 463-473, called by the network on shutdown
StopCall ==
    /\ stop_pc = "idle"
    /\ sp_pc = "idle"
    /\ main_taskgroup # NoGroup
    /\ Call
    /\ Cancelled
    /\ stop_pc' = "cancelling"
    /\ UNCHANGED <<now, dsqVars, ilVars, sporkVars, dns_call, findVars, peers_updated, banVars, ban_trace, config, net_proxy,
                   confVars,
                   proxy, max_peers, peers, peers_queue, found_peers,
                   disconnected_static, sp_pc, sp_snap, restart_lock,
                   start_failed>>

\* DashNet.stop, lines 474-480 (line 475 assigns self.peeers, not self.peers)
StopReturn ==
    /\ stop_pc = "cancelling"
    /\ main_taskgroup' = NoGroup
    /\ connecting' = {}
    /\ peers_queue' = None
    /\ stop_pc' = "idle"
    /\ UNCHANGED <<now, dsqVars, ilVars, sporkVars, dns_call, findVars, peers_updated, banVars, ban_trace, failed_at, cfgVars, confVars,
                   proxy, max_peers, peers, found_peers, disconnected_static,
                   taskVars, sp_pc, sp_snap, restart_lock, start_failed>>

\* the snapshot set_parameters takes, lines 417-424
Snapshot ==
    [proxy |-> net_proxy,
     run_dash_net |-> ConfigGet(config, "run_dash_net", TRUE),
     dash_peers |-> ConfigGet(config, "dash_peers", <<>>),
     use_static_peers |-> ConfigGet(config, "dash_use_static_peers", FALSE)]

\* the running configuration set_parameters compares it with, lines 426-429
Running ==
    [proxy |-> proxy, run_dash_net |-> run_dash_net, dash_peers |-> dash_peers,
     use_static_peers |-> use_static_peers]

\* DashNet.set_parameters, lines 416-432, up to the await in stop()
SetParametersCall ==
    /\ sp_pc = "idle"
    /\ stop_pc = "idle"
    /\ Call
    /\ sp_snap' = Some(Snapshot)
    /\ IF Running = Snapshot
       THEN UNCHANGED <<confVars, proxy, main_taskgroup, connecting, peers_queue,
                        disconnected_static, taskVars, sp_pc, restart_lock,
                        start_failed, failed_at>>
       ELSE IF main_taskgroup # NoGroup
            THEN /\ Cancelled
                 /\ sp_pc' = "stopping"
                 /\ restart_lock' = "set_parameters"
                 /\ UNCHANGED <<confVars, proxy, peers_queue, disconnected_static,
                                start_failed>>
            ELSE /\ Started(_start(NoGroup, connecting, peers_queue))
                 /\ UNCHANGED <<connecting, attempts, sp_pc, restart_lock,
                                failed_at>>
    /\ UNCHANGED <<now, dsqVars, ilVars, sporkVars, dns_call, findVars, peers_updated, banVars, ban_trace, config, net_proxy,
                   max_peers, peers, found_peers, stop_pc>>

\* DashNet.set_parameters: the rest of stop(), lines 474-480, then _start(),
\* and the restart lock is released
SetParametersReturn ==
    /\ sp_pc = "stopping"
    /\ Started(_start(NoGroup, {}, None))
    /\ connecting' = {}
    /\ sp_pc' = "idle"
    /\ restart_lock' = NoHolder
    /\ UNCHANGED <<now, dsqVars, ilVars, sporkVars, dns_call, findVars, peers_updated, banVars, ban_trace, failed_at, cfgVars, max_peers,
                   peers, found_peers, attempts, sp_snap, stop_pc>>

\* the max_peers setter, lines 495-500
clamp(cnt) ==
    LET low == IF cnt < MIN_PEERS_LIMIT THEN MIN_PEERS_LIMIT ELSE cnt IN
    IF low > MAX_PEERS_LIMIT THEN MAX_PEERS_LIMIT ELSE low

SetMaxPeers(cnt) ==
    /\ Call
    /\ max_peers' = clamp(cnt)
    /\ config' = [config EXCEPT !.dash_max_peers = Some(clamp(cnt))]
    /\ UNCHANGED <<now, dsqVars, ilVars, sporkVars, dns_call, findVars, peers_updated, banVars, ban_trace, failed_at, net_proxy, confVars,
                   proxy, main_taskgroup, peers, connecting, peers_queue,
                   found_peers, disconnected_static, taskVars, sp_pc,
                   sp_snap, stop_pc, restart_lock, start_failed>>

\* ---- the environment of the pool

\* the user edits the configuration (the max_peers key goes through the setter)
SetConfig(c) ==
    /\ config' = [c EXCEPT !.dash_max_peers = config.dash_max_peers]
    /\ config' # config
    /\ Call
    /\ UNCHANGED <<now, dsqVars, ilVars, sporkVars, dns_call, banVars, ban_trace, net_proxy, poolVars>>

\* the network's proxy changes
SetProxy(p) ==
    /\ net_proxy' = p
    /\ p # net_proxy
    /\ Call
    /\ UNCHANGED <<now, dsqVars, ilVars, sporkVars, dns_call, banVars, ban_trace, config, poolVars>>

\* _remove_banned_peer called from the GUI
PoolRemoveBannedPeer(peer) ==
    /\ peer \in DOMAIN banlist
    /\ Call
    /\ remove_banned_peer(peer, "ok")
    /\ UNCHANGED <<now, dsqVars, ilVars, sporkVars, dns_call, ban_trace, config, net_proxy, poolVars>>

\* time.time() moves on
PoolTick ==
    /\ now < 1 + MaxPoolTicks * RECONNECT_INTERVAL
    /\ now' = now + RECONNECT_INTERVAL
    /\ UNCHANGED <<dsqVars, ilVars, sporkVars, dns_call, banVars, ban_trace, cfgVars, poolVars>>

\* ---- inputs of the pool specification
DnsAnswers == {{}, {Addr("h1")}, Peers}
SetterInputs == {0, 5, 100}
PoolBanFiles ==
    {Missing,
     Document(json_dumps(DictSet(EmptyDict, Addr("h1"),
                  BanRecord(0, "misbehaving", None, "/Dash Core:0.14.0/"))))}

Init ==
    /\ now = 1
    /\ DsqInitAt(0)
    /\ IlInit
    /\ SporkInit
    /\ DnsInit
    /\ data_dir = TRUE
    /\ banfile \in PoolBanFiles
    /\ banlist = _read_banlist(data_dir, banfile)
    /\ save_failed = FALSE
    /\ ban_trace = <<>>
    /\ PoolInit

Next ==
    \/ Start
    \/ StopCall
    \/ StopReturn
    \/ SetParametersCall
    \/ SetParametersReturn
    \/ \E cnt \in SetterInputs : SetMaxPeers(cnt)
    \/ \E c \in ConfigInputs : SetConfig(c)
    \/ \E p \in Proxies : SetProxy(p)
    \/ \E new_peers \in DnsAnswers : MaintainFindPeers(new_peers)
    \/ MaintainFindWait
    \/ MaintainQueuePeers
    \/ MaintainLaunch
    \/ MaintainDisconnectExcess
    \/ MaintainExcessWait
    \/ MaintainSleep
    \/ MaintainCancelled
    \/ \E task \in SupervisedTasks : TaskRaised(task)
    \/ \E peer \in Peers : RunNewPeerReady(peer)
    \/ \E peer \in Peers : RunNewPeerFailed(peer)
    \/ \E peer \in Peers : RunNewPeerRaised(peer)
    \/ \E peer \in Peers, registered \in BOOLEAN, ban_msg \in BOOLEAN :
          ConnectionDown(peer, registered, ban_msg)
    \/ \E peer \in Peers : PoolRemoveBannedPeer(peer)
    \/ PoolTick

Spec == Init /\ [][Next]_vars

\* ---- the pool under the scheduling of the asyncio loop: a task that can
\* take its next step takes it, a connection attempt ends (ready, timeout or
\* cancel), and the awaits of stop() and set_parameters() return
Maintain ==
    \/ \E new_peers \in DnsAnswers : MaintainFindPeers(new_peers)
    \/ MaintainFindWait
    \/ MaintainQueuePeers
    \/ MaintainLaunch
    \/ MaintainDisconnectExcess
    \/ MaintainExcessWait
    \/ MaintainSleep

AttemptEnds ==
    \E peer \in Peers :
       RunNewPeerReady(peer) \/ RunNewPeerFailed(peer) \/ RunNewPeerRaised(peer)

\* a pool in dynamic mode whose configuration asks for three peers
InitFair ==
    /\ Init
    /\ config = [run_dash_net |-> None, dash_peers |-> Some(<<>>),
                 dash_use_static_peers |-> None, dash_max_peers |-> Some(3)]
    /\ net_proxy = NoProxy
    /\ banfile = Missing

SpecFair ==
    /\ InitFair
    /\ [][Next]_vars
    /\ WF_vars(Maintain)
    /\ WF_vars(AttemptEnds)
    /\ WF_vars(StopReturn)
    /\ WF_vars(SetParametersReturn)

(***************************************************************************)
(*                The specifications of the caches                         *)
(***************************************************************************)
InitSpork ==
    /\ now \in SporkNowInputs
    /\ DsqInitAt(0)
    /\ IlInit
    /\ SporkInit
    /\ DnsInit
    /\ data_dir = FALSE /\ banfile = Missing /\ banlist = EmptyDict
    /\ save_failed = FALSE /\ ban_trace = <<>>
    /\ PoolDefault

NextSpork ==
    /\ \/ \E spork_id \in SporkIdInputs, value \in SporkValueInputs,
            peer \in SporkPeers : SetSpork(spork_id, value, peer)
       \/ \E spork_id \in SporkIdInputs : IsSporkActive(spork_id)
       \/ \E spork_id \in SporkIdInputs : IsSporkDefault(spork_id)
       \/ \E spork_id \in SporkIdInputs : GetSporkValue(spork_id)
    /\ UNCHANGED <<now, gatherVars, dsqVars, ilVars, dns_call, banVars, ban_trace, cfgVars,
                   poolVars>>

SpecSpork == InitSpork /\ [][NextSpork]_vars

\* the gather loop with 0 to 8 live peers
MaxGatherPeers == 8
GatherHosts == <<"g1", "g2", "g3", "g4", "g5", "g6", "g7", "g8">>
GatherPeer(i) == Addr(GatherHosts[i])
InitGather ==
    /\ now = 1
    /\ DsqInitAt(0)
    /\ IlInit
    /\ SporkInit
    /\ DnsInit
    /\ data_dir = FALSE /\ banfile = Missing /\ banlist = EmptyDict
    /\ save_failed = FALSE /\ ban_trace = <<>>
    /\ config = [run_dash_net |-> None, dash_peers |-> Some(<<>>),
                 dash_use_static_peers |-> None,
                 dash_max_peers |-> Some(MAX_PEERS_LIMIT)]
    /\ net_proxy = NoProxy
    /\ calls = 0
    /\ run_dash_net = read_conf(config).run_dash_net
    /\ dash_peers = read_conf(config).dash_peers
    /\ use_static_peers = read_conf(config).use_static_peers
    /\ static_peers = read_conf(config).static_peers
    /\ proxy = NoProxy
    /\ max_peers = MAX_PEERS_LIMIT
    /\ main_taskgroup = "open"
    /\ \E n \in 0..MaxGatherPeers : peers = {GatherPeer(i) : i \in 1..n}
    /\ connecting = {}
    /\ peers_queue = Some(<<>>)
    /\ found_peers = peers
    /\ disconnected_static = EmptyDict
    /\ mt_pc = "sleep"
    /\ gs_pc = "run"
    /\ ma_pc = "run"
    /\ attempts = {}
    /\ sp_pc = "idle"
    /\ sp_snap = None
    /\ stop_pc = "idle"
    /\ restart_lock = NoHolder
    /\ start_failed = FALSE
    /\ failed_at = [p \in Peers |-> 0]
    /\ FindInit
    /\ peers_updated = [p \in Peers \cup peers |-> IF p \in peers THEN 1 ELSE 0]

NextGather ==
    /\ \/ \E p \in peers : GatherSporks(p)
       \/ GatherSporksIdle
       \/ \E peer \in peers : PeerReportsSpork(peer, 10001, 0)
    /\ UNCHANGED <<now, dsqVars, ilVars, dns_call, banVars, ban_trace, cfgVars,
                   poolVars>>

SpecGather == InitGather /\ [][NextGather]_vars

InitDns ==
    /\ now = 1
    /\ DsqInitAt(0)
    /\ IlInit
    /\ SporkInit
    /\ DnsInit
    /\ data_dir = FALSE /\ banfile = Missing /\ banlist = EmptyDict
    /\ save_failed = FALSE /\ ban_trace = <<>>
    /\ PoolDefault

NextDns ==
    /\ \/ \E hostname \in DnsSeeds : ResolveDnsCall(hostname)
       \/ \E outcome \in DnsOutcomes : ResolveDnsQuery(outcome)
    /\ UNCHANGED <<now, dsqVars, ilVars, sporkVars, banVars, ban_trace, cfgVars,
                   poolVars>>

SpecDns == InitDns /\ [][NextDns]_vars

InitDsq ==
    /\ \E n \in 0..MaxDsqFill : now = n /\ DsqInitAt(n)
    /\ IlInit
    /\ SporkInit
    /\ DnsInit
    /\ data_dir = FALSE /\ banfile = Missing /\ banlist = EmptyDict
    /\ save_failed = FALSE /\ ban_trace = <<>>
    /\ PoolDefault

NextDsq ==
    /\ \/ \E dsq \in DsqInputs : AddRecentDsq(dsq)
       \/ \E mns \in MixesInputs : GetRecentDsq(mns)
    /\ UNCHANGED <<now, ilVars, sporkVars, dns_call, banVars, ban_trace, cfgVars, poolVars>>

SpecDsq == InitDsq /\ [][NextDsq]_vars

InitIsLock ==
    /\ now = 0
    /\ DsqInitAt(0)
    /\ IlInit
    /\ SporkInit
    /\ DnsInit
    /\ data_dir = FALSE /\ banfile = Missing /\ banlist = EmptyDict
    /\ save_failed = FALSE /\ ban_trace = <<>>
    /\ PoolDefault

NextIsLock ==
    /\ \/ \E t \in IlThreads, txid \in Txids, found \in BOOLEAN :
            AppendToRecentIslocks(t, txid, found) /\ UNCHANGED now
       \/ \E t \in IlThreads : ClearRecentIslocksEnter(t) /\ UNCHANGED now
       \/ \E t \in IlThreads : ClearRecentIslocksScan(t) /\ UNCHANGED now
       \/ \E d \in TickSteps : Tick(d) /\ UNCHANGED ilVars
    /\ UNCHANGED <<dsqVars, sporkVars, dns_call, banVars, ban_trace, cfgVars, poolVars>>

SpecIsLock == InitIsLock /\ [][NextIsLock]_vars

MaxBanNow == 2
InitBan ==
    /\ now = 1
    /\ DsqInitAt(0)
    /\ IlInit
    /\ SporkInit
    /\ DnsInit
    /\ BanInit
    /\ PoolDefault

NextBan ==
    /\ \/ \E peer \in Peers, msg \in BanMsgs, till \in BanTills, ua \in UserAgents,
            outcome \in SaveOutcomes :
            AddBannedPeer(peer, msg, till, ua, outcome) /\ UNCHANGED now
       \/ \E peer \in Peers, outcome \in SaveOutcomes :
            RemoveBannedPeer(peer, outcome) /\ UNCHANGED now
       \/ now < MaxBanNow /\ now' = now + 1 /\ UNCHANGED <<banVars, ban_trace>>
    /\ UNCHANGED <<dsqVars, ilVars, sporkVars, dns_call, cfgVars, poolVars>>

SpecBan == InitBan /\ [][NextBan]_vars

(***************************************************************************)
(*                              Claims                                     *)
(***************************************************************************)
SetMin(S) == CHOOSE x \in S : \A y \in S : x <= y
Last(l) == l[Len(l)]

\* C7: with a data path configured and every write having succeeded, the
\* persisted ban-list document reloads to exactly the table in memory: a
\* record added is read back equal, a record removed is absent.
C7_BanRoundTrip ==
    (data_dir /\ ~save_failed) => _read_banlist(data_dir, banfile) = banlist

\* a peer was added and removed again and another added record is in the table
C7_Witness ==
    /\ data_dir /\ ~save_failed
    /\ \E i, j \in 1..Len(ban_trace) :
          /\ i < j
          /\ ban_trace[i].op = "add" /\ ban_trace[j].op = "remove"
          /\ ban_trace[i].peer = ban_trace[j].peer
          /\ ban_trace[i].peer \notin DOMAIN banlist
    /\ \E k \in 1..Len(ban_trace) :
          /\ ban_trace[k].op = "add"
          /\ ban_trace[k].peer \in DOMAIN banlist
          /\ banlist[ban_trace[k].peer].at = now

\* The rings of a dsq state after one and after two ingests of dsq.
DsqOnce(dsq) == add_recent_dsq(DsqCur, dsq)
DsqTwice(dsq) == add_recent_dsq(DsqOnce(dsq), dsq)

\* whether st2 is st1 with exactly one record pushed on recent_dsq and one
\* fingerprint pushed on recent_dsq_hashes, both those of dsq
OnePushed(st1, st2, dsq) ==
    /\ st2.clk = st1.clk + 1
    /\ Len(st2.rd) = Min(Len(st1.rd) + 1, RECENT_DSQ_MAXLEN)
    /\ st2.rd[1] = dsq
    /\ SubSeq(st2.rd, 2, Len(st2.rd)) = SubSeq(st1.rd, 1, Len(st2.rd) - 1)
    /\ Len(st2.rh) = Min(Len(st1.rh) + 1, RECENT_DSQ_HASHES_MAXLEN)
    /\ Last(st2.rh) = dsq_hash(dsq)
    /\ SubSeq(st2.rh, 1, Len(st2.rh) - 1) =
          SubSeq(st1.rh, Len(st1.rh) - Len(st2.rh) + 2, Len(st1.rh))
    /\ Cardinality({i \in 1..Len(st2.rh) : st2.rh[i] = dsq_hash(dsq)}) = 1

\* C8 as stated: from any cache state, two successive ingests of the same
\* announcement of a known denomination add exactly one record and exactly
\* one fingerprint, and the second ingest changes nothing.
C8_DedupFromAnyState ==
    \A dsq \in DsqInputs :
        dsq.nDenom \in PSDenoms =>
            /\ OnePushed(DsqCur, DsqTwice(dsq), dsq)
            /\ DsqTwice(dsq) = DsqOnce(dsq)

\* C8 amended: from a cache state whose fingerprint ring does not hold the
\* announcement's fingerprint, two successive ingests add exactly one record
\* and exactly one fingerprint; from a state whose fingerprint ring holds
\* it, they add nothing; in both cases the second ingest changes nothing.
C8_Dedup ==
    \A dsq \in DsqInputs :
        dsq.nDenom \in PSDenoms =>
            /\ DsqTwice(dsq) = DsqOnce(dsq)
            /\ IF InSeq(dsq_hash(dsq), recent_dsq_hashes)
               THEN DsqTwice(dsq) = DsqCur
               ELSE OnePushed(DsqCur, DsqTwice(dsq), dsq)

\* the same announcement was ingested twice and is held once, pushed once
C8_Witness ==
    /\ Len(dsq_trace) = 2
    /\ dsq_trace[1] = dsq_trace[2]
    /\ dsq_trace[1].op = "add"
    /\ dsq_trace[1].arg.nDenom \in PSDenoms
    /\ recent_dsq # <<>> /\ recent_dsq[1] = dsq_trace[1].arg
    /\ dsq_stamp[1] = dsq_clock - 1
    /\ Last(hash_stamp) = dsq_clock - 1
    /\ Cardinality({i \in 1..Len(recent_dsq_hashes) :
            recent_dsq_hashes[i] = dsq_hash(dsq_trace[1].arg)}) = 1
    /\ Len(recent_dsq) = RECENT_DSQ_MAXLEN

\* the entries of a ring with their push stamps
Stamped(ring, stamps) == {<<stamps[i], ring[i]>> : i \in 1..Len(ring)}
Oldest(ring, stamps) ==
    CHOOSE e \in Stamped(ring, stamps) : \A f \in Stamped(ring, stamps) : e[1] <= f[1]

\* a step that pushes on a full ring removes that ring's oldest entry only
EvictsOldest ==
    /\ (dsq_clock' > dsq_clock /\ Len(recent_dsq) = RECENT_DSQ_MAXLEN) =>
          Stamped(recent_dsq', dsq_stamp') =
             (Stamped(recent_dsq, dsq_stamp) \ {Oldest(recent_dsq, dsq_stamp)})
                \cup {<<dsq_clock, recent_dsq'[1]>>}
    /\ (dsq_clock' > dsq_clock /\ Len(recent_dsq_hashes) = RECENT_DSQ_HASHES_MAXLEN) =>
          Stamped(recent_dsq_hashes', hash_stamp') =
             (Stamped(recent_dsq_hashes, hash_stamp)
                 \ {Oldest(recent_dsq_hashes, hash_stamp)})
                \cup {<<dsq_clock, Last(recent_dsq_hashes')>>}

\* C9: the record ring never holds more than 100 records, the fingerprint
\* ring never more than 50 fingerprints, and an ingest into a full ring
\* evicts exactly that ring's least recently ingested entry.
C9_FixedCapacity ==
    /\ [](/\ Len(recent_dsq) <= RECENT_DSQ_MAXLEN
          /\ Len(recent_dsq_hashes) <= RECENT_DSQ_HASHES_MAXLEN)
    /\ [][EvictsOldest]_vars

\* both rings are full, an ingest has just pushed on them, entries were evicted
C9_Witness ==
    /\ Len(recent_dsq) = RECENT_DSQ_MAXLEN
    /\ Len(recent_dsq_hashes) = RECENT_DSQ_HASHES_MAXLEN
    /\ dsq_trace # <<>> /\ Last(dsq_trace).op = "add"
    /\ recent_dsq[1] = Last(dsq_trace).arg
    /\ dsq_stamp[1] = dsq_clock - 1
    /\ dsq_stamp[RECENT_DSQ_MAXLEN] = dsq_clock - RECENT_DSQ_MAXLEN
    /\ dsq_stamp[RECENT_DSQ_MAXLEN] > 1
    /\ hash_stamp[1] = dsq_clock - RECENT_DSQ_HASHES_MAXLEN

\* the list holds no record received 900 s or more before t and every
\* record received less than 900 s before t
PrunedAt(l, t) ==
    /\ \A i \in 1..Len(l) : t - l[i].at < KEEP_SEC
    /\ \A i \in 1..Len(il_seen) : t - il_seen[i].at < KEEP_SEC => InSeq(il_seen[i], l)

\* C10 as stated: after every call of clear_recent_islocks the list is
\* pruned to the 900-second window.
C10_PrunedAfterEveryCall ==
    [][\A t \in IlThreads :
          (il_pc[t] \in {"clear", "scan"} /\ il_pc'[t] = "idle")
             => PrunedAt(recent_islocks', now)]_vars

\* C10 amended: after a call of clear_recent_islocks that is not throttled
\* (made 60 s or more after the last scan), no record received 900 s or more
\* ago remains and every record received less than 900 s ago is in the list.
C10_PrunedAfterScan ==
    [][\A t \in IlThreads :
          (il_pc[t] = "scan" /\ il_pc'[t] = "idle")
             => PrunedAt(recent_islocks', now)]_vars

\* a scan has dropped a record of age 900 and kept a record of age 870
C10_Witness ==
    /\ recent_islocks_clear = now
    /\ \A t \in IlThreads : il_pc[t] = "idle"
    /\ \E i \in 1..Len(il_seen) :
          now - il_seen[i].at = KEEP_SEC /\ ~InSeq(il_seen[i], recent_islocks)
    /\ \E i \in 1..Len(recent_islocks) :
          now - recent_islocks[i].at > 0 /\ now - recent_islocks[i].at < KEEP_SEC

\* ---- the peer pool

\* C1: at every quiescent point no address is both in the live-peer map
\* (peers) and in the connecting set
C1_LiveConnectingDisjoint == peers \cap connecting = {}

\* C1's case: the pool holds a live peer (a connection attempt succeeded)
\* while other addresses are connecting, one attempt still running
C1_Witness == peers # {} /\ connecting # {} /\ attempts # {}

\* C2: in static and in dynamic mode, an address that is in the ban list is
\* never queued for dialing (added to connecting) and never has a connection
\* attempt launched for it
C2_BannedNeverDialed ==
    [][\A peer \in DOMAIN banlist :
          /\ peer \in connecting' => peer \in connecting
          /\ peer \in attempts' => peer \in attempts]_vars

\* C3: max_peers is within [MIN_PEERS_LIMIT, MAX_PEERS_LIMIT] in every
\* reachable state, the state after construction included
C3_MaxPeersInRange == max_peers \in MIN_PEERS_LIMIT..MAX_PEERS_LIMIT

\* C4: while the maintain loop runs, an excess of connecting and live
\* addresses over max_peers is eventually gone, and the loop does not stay
\* in disconnect_excess_peers waiting for a live peer: it goes on iterating
Excess == mt_pc # "none" /\ peers_total > max_peers
C4_ExcessConverges ==
    /\ Excess ~> ~Excess
    /\ (mt_pc = "excess_wait") ~> (mt_pc # "excess_wait")

\* C5: when stop() returns, peers is empty, connecting is empty, the queue
\* is cleared and the supervisor is cleared, which is what _start asserts
C5_StopResets ==
    [][(stop_pc = "cancelling" /\ stop_pc' = "idle")
        => /\ peers' = {}
           /\ connecting' = {}
           /\ peers_queue' = None
           /\ main_taskgroup' = NoGroup]_vars

\* C6: a set_parameters call that finds a difference stops and starts, and
\* when it returns the running configuration equals its snapshot and, if
\* the pool is enabled, the three tasks run; a call that finds no
\* difference leaves the pool as it is
SetParametersReturns ==
    \/ SetParametersReturn
    \/ SetParametersCall /\ Running # Snapshot /\ sp_pc' = "idle"
C6_SetParameters ==
    [][/\ SetParametersReturns
          => /\ Running' = Get(sp_snap')
             /\ run_dash_net' => (mt_pc' # "none" /\ gs_pc' = "run" /\ ma_pc' = "run")
       /\ (SetParametersCall /\ Running = Snapshot)
          => UNCHANGED <<confVars, proxy, max_peers, main_taskgroup, peers,
                         connecting, peers_queue, found_peers,
                         disconnected_static, taskVars>>]_vars

\* C11: of two calls of clear_recent_islocks made within 60 s of each other
\* at most one scans (a call scans only when the last scan is 60 s or more
\* before it), whichever threads make them; a throttled call leaves the list
\* and recent_islocks_clear unchanged
C11_ThrottledScan ==
    [][\A t \in IlThreads :
          /\ (il_pc[t] = "scan" /\ il_pc'[t] = "idle")
                => (il_now[t] - recent_islocks_clear) * KEEP_SEC_DIV >= KEEP_SEC
          /\ (il_pc[t] = "clear" /\ il_pc'[t] = "idle")
                => UNCHANGED <<recent_islocks, recent_islocks_clear>>]_vars

\* ---- sporks

\* the effective value of a spork id: the gathered value if one was stored,
\* else the value of the default table, else unknown
Effective(spork_id) ==
    IF spork_id \in DOMAIN gathered_sporks THEN Some(gathered_sporks[spork_id])
    ELSE IF spork_id \in DOMAIN SPORKS_DEFAULTS THEN Some(SPORKS_DEFAULTS[spork_id])
    ELSE None

LastSet(spork_id) ==
    LET calls_on_id == SelectSeq(spork_trace, LAMBDA c : c.spork_id = spork_id) IN
    IF calls_on_id = <<>> THEN None ELSE Some(calls_on_id[Len(calls_on_id)])
SporkIdsSet == {spork_trace[i].spork_id : i \in 1..Len(spork_trace)}

NoAddresses(outcome) ==
    \/ outcome.kind \in {"transport error", "parse error"}
    \/ outcome.answer = None
    \/ outcome.answer = Some(<<>>)

\* C14: when resolve_dns_over_https has returned, the endpoints were queried
\* in the order of DNS_OVER_HTTPS_ENDPOINTS, every endpoint queried before
\* the last one failed or returned no answers, and the result is the
\* addresses of the last one queried if it gave any, else the empty list
\* with every endpoint queried; the call never ends with an error
C14_DiscoveryFallback ==
    (dns_call.pc = "idle" /\ dns_call.queried # <<>>) =>
        LET queried == dns_call.queried
            last == queried[Len(queried)].outcome IN
        /\ dns_call.ret # None
        /\ Len(queried) <= Len(DNS_OVER_HTTPS_ENDPOINTS)
        /\ \A i \in 1..Len(queried) :
              queried[i].endpoint = DNS_OVER_HTTPS_ENDPOINTS[i]
        /\ \A i \in 1..(Len(queried) - 1) : NoAddresses(queried[i].outcome)
        /\ IF NoAddresses(last)
           THEN /\ Get(dns_call.ret) = <<>>
                /\ Len(queried) = Len(DNS_OVER_HTTPS_ENDPOINTS)
           ELSE Get(dns_call.ret) = Get(last.answer)

\* the first endpoint answered and the call returned its addresses without
\* querying the second one
C14_Witness ==
    /\ dns_call.pc = "idle"
    /\ Len(dns_call.queried) = 1
    /\ dns_call.ret = Some(<<"10.0.0.1", "10.0.0.2">>)

\* C15: a connection attempt that has ended, whatever its outcome, has left
\* its address out of connecting, and no address is in connecting without
\* an entry on the queue or a running attempt
Queued == IF peers_queue = None THEN {} ELSE SeqToSet(Get(peers_queue))
C15_ConnectingRemoved ==
    /\ [](connecting \subseteq (Queued \cup attempts))
    /\ [][\A peer \in Peers :
             (peer \in attempts /\ peer \notin attempts') => peer \notin connecting']_vars

\* C16: every address put on the queue is eventually taken off it, a
\* connection attempt being spawned for it unless the pool is stopped
C16_QueueDrained ==
    \A peer \in Peers : (peer \in Queued) ~> (peer \notin Queued)

\* C17: in static mode an address whose connection attempt timed out or was
\* cancelled is not queued again before RECONNECT_INTERVAL seconds have
\* passed since the failure; in dynamic mode it is at once again in the set
\* queue_peers picks from (if it is a found peer that is not banned)
C17_EligibleAfterFailure ==
    [][\A peer \in Peers :
          /\ (use_static_peers /\ peer \in connecting' /\ peer \notin connecting
                 /\ failed_at[peer] # 0)
                => now - failed_at[peer] >= RECONNECT_INTERVAL
          /\ (~use_static_peers /\ peer \in attempts /\ peer \notin attempts'
                 /\ peer \notin peers' /\ peer \notin connecting'
                 /\ peer \in found_peers /\ peer \notin DOMAIN banlist)
                => peer \in available_peers']_vars

\* what connection_down does besides the live-peer map: exactly one of a
\* cool-down timestamp (static mode and a static peer, with or without a
\* ban reason), a ban record (otherwise, with a ban reason), or nothing;
\* connecting, the queue and found_peers are left unchanged
DisconnectOutcome(peer, ban_msg) ==
    /\ IF use_static_peers /\ InSeq(peer, static_peers)
       THEN /\ disconnected_static' = DictSet(disconnected_static, peer, now)
            /\ UNCHANGED banVars
       ELSE IF ban_msg
            THEN /\ banlist' = DictSet(banlist, peer,
                                       BanRecord(now, BanMsg, BanTill, UserAgent))
                 /\ UNCHANGED disconnected_static
            ELSE UNCHANGED <<banVars, disconnected_static>>
    /\ UNCHANGED <<connecting, peers_queue, found_peers>>

\* C18 as stated: connection_down removes the address from the live-peer
\* map, and then has the outcome above
C18_DisconnectRemoves ==
    [][\A peer \in Peers, registered \in BOOLEAN, ban_msg \in BOOLEAN :
          ConnectionDown(peer, registered, ban_msg)
             => /\ peers' = peers \ {peer}
                /\ DisconnectOutcome(peer, ban_msg)]_vars

\* C18 amended: connection_down removes the address from the live-peer map
\* when the map holds this very connection for it, and leaves the map as it
\* is when it holds none or another connection for the address; the outcome
\* is as stated
C18_DisconnectOutcome ==
    [][\A peer \in Peers, registered \in BOOLEAN, ban_msg \in BOOLEAN :
          ConnectionDown(peer, registered, ban_msg)
             => /\ peers' = IF registered THEN peers \ {peer} ELSE peers
                /\ DisconnectOutcome(peer, ban_msg)]_vars

\* in static mode a static peer went down: it left the live-peer map, has a
\* cool-down timestamp and no ban record, while another peer stays live
C18_Witness ==
    /\ use_static_peers
    /\ \E peer \in Peers :
          /\ InSeq(peer, static_peers)
          /\ peer \in DOMAIN disconnected_static
          /\ disconnected_static[peer] = now
          /\ peer \notin peers
          /\ peer \notin DOMAIN banlist
          /\ peers # {}

\* C19: the maintain loop ends only when its supervisor is cleared or
\* closed: a cancellation delivered at any of its suspension points while
\* the supervisor is present and open is followed by a next iteration
C19_CancellationSuppressed ==
    [][(mt_pc # "none" /\ mt_pc' = "none")
          => main_taskgroup' \in {NoGroup, "closed"}]_vars

\* the end of one connection attempt by a timeout, a cancellation or an
\* exception
AttemptFails(peer) == RunNewPeerFailed(peer) \/ RunNewPeerRaised(peer)

\* C20: the failure of one connection attempt ends that attempt only: the
\* other attempts go on, the maintain-peers, gather-sporks and
\* monitor-activity tasks go on and the supervisor stays as it is; short of
\* stop(), the supervisor is closed and the three tasks are ended together
\* only by an exception raised inside one of the three tasks
C20_FailureIsolation ==
    [][/\ \A peer \in Peers :
             AttemptFails(peer)
                => /\ attempts' = attempts \ {peer}
                   /\ UNCHANGED <<mt_pc, gs_pc, ma_pc, main_taskgroup>>
       /\ (main_taskgroup = "open" /\ main_taskgroup' # "open"
             /\ ~StopCall /\ ~SetParametersCall)
             => \E task \in SupervisedTasks : TaskRaised(task)]_vars

\* in static mode the attempt on one address has failed while the attempt on
\* another address and the three tasks are still running under an open
\* supervisor
C20_Witness ==
    /\ main_taskgroup = "open"
    /\ mt_pc # "none" /\ gs_pc # "none" /\ ma_pc # "none"
    /\ stop_pc = "idle" /\ sp_pc = "idle"
    /\ \E peer \in Peers, other \in attempts :
          /\ failed_at[peer] = now
          /\ peer \notin attempts
          /\ peer \notin connecting
          /\ other # peer

\* ---- the gather loop

\* the threshold that takes the ceiling of 0.51 * peers_cnt
gather_cnt_ceil(peers_cnt) ==
    IF peers_cnt <= 2 THEN peers_cnt
    ELSE (51 * peers_cnt + 99) \div 100

\* C21: with n live peers, n from 1 to 8, the gather loop requires n
\* contributors when n <= 2 and ceil(0.51 * n) when n > 2, and sends
\* getsporks only while the number of contributors is below that
C21_GatherQuorum ==
    gather_ret.peers_cnt \in 1..MaxGatherPeers =>
       /\ gather_ret.gather_cnt = gather_cnt_ceil(gather_ret.peers_cnt)
       /\ gather_ret.sent # None =>
             gather_ret.contributors < gather_cnt_ceil(gather_ret.peers_cnt)

\* ---- find_peers

\* at most one getaddr is sent in the step, to a live peer whose
\* getaddr_done flag was not set
GetaddrAtMostOne ==
    \/ UNCHANGED <<getaddr_done, getaddr_sent>>
    \/ \E p \in peers :
          /\ p \notin getaddr_done
          /\ getaddr_done' = getaddr_done \cup {p}
          /\ getaddr_sent' = [getaddr_sent EXCEPT ![p] = @ + 1]

\* C22: a run of find_peers with c known candidates resolves the DNS seeds
\* and sends no getaddr when c < 2, resolves nothing and sends at most one
\* getaddr, to a live peer not yet asked, when 2 <= c < max_peers, and does
\* neither when c >= max_peers; no connection is sent more than one getaddr
C22_DiscoveryTrigger ==
    /\ [][\A new_peers \in DnsAnswers :
             (MaintainFindPeers(new_peers) /\ ~use_static_peers) =>
                LET c == Cardinality(peers_union) IN
                /\ c < 2 => /\ find_ret'.dns
                            /\ UNCHANGED <<getaddr_done, getaddr_sent>>
                /\ (2 <= c /\ c < max_peers) =>
                      /\ ~find_ret'.dns
                      /\ UNCHANGED found_peers
                      /\ GetaddrAtMostOne
                /\ c >= max_peers =>
                      /\ ~find_ret'.dns
                      /\ UNCHANGED <<found_peers, getaddr_done, getaddr_sent>>]_vars
    /\ [][MaintainFindWait => ~find_ret'.dns /\ GetaddrAtMostOne]_vars
    /\ [](\A p \in Peers : getaddr_sent[p] <= 1)

\* ---- get_recent_dsq

\* the record is within the protocol timeout at time t, its masternode is
\* known and the address of the masternode is not excluded
Qualifies(dsq, exclude, t) ==
    /\ t - dsq.nTime <= PRIVATESEND_QUEUE_TIMEOUT
    /\ get_mn_by_outpoint(dsq.masternodeOutPoint) # None
    /\ LET mn == Get(get_mn_by_outpoint(dsq.masternodeOutPoint)) IN
       <<mn.ipAddress, mn.port>> \notin exclude

\* C23: get_recent_dsq returns the newest record of the ring that
\* qualifies and removes it and every newer record, the older records stay;
\* when no record qualifies it returns nothing and leaves the ring empty
C23_DsqSupply ==
    [][\A exclude \in MixesInputs :
          GetRecentDsq(exclude) =>
             LET q == {i \in 1..Len(recent_dsq) :
                          Qualifies(recent_dsq[i], exclude, now)} IN
             IF q = {}
             THEN dsq_ret' = None /\ recent_dsq' = <<>>
             ELSE /\ dsq_ret' = Some(recent_dsq[SetMin(q)])
                  /\ recent_dsq' = SubSeq(recent_dsq, SetMin(q) + 1, Len(recent_dsq))
                  /\ \A i \in 1..Len(recent_dsq') :
                        recent_dsq'[i] = recent_dsq[SetMin(q) + i]]_vars

\* get_recent_dsq was called on the ring of the earlier traffic with an
\* excluded address: it returned a record that was not the newest, the two
\* newer records or more are gone with it and the older records are there
C23_Witness ==
    /\ Len(dsq_trace) = 1
    /\ dsq_trace[1].op = "get"
    /\ dsq_trace[1].arg # {}
    /\ dsq_ret # None
    /\ recent_dsq # <<>>
    /\ dsq_stamp[1] < dsq_clock - 3
    /\ Get(dsq_ret) = DsqRec(dsq_stamp[1] + 1)
    /\ recent_dsq[1] = DsqRec(dsq_stamp[1])

\* ---- the supervisor

\* C24: whatever the interleaving of start(), set_parameters() and stop(),
\* no assertion at the top of _start fails (no supervisor, no live peer, no
\* connecting address, no queue), so that a second set of the three tasks
\* is never started beside a live one
C24_OneSupervisor == ~start_failed

\* C25: as long as only add_recent_dsq was called, no two records of
\* recent_dsq have the same fingerprint
C25_NoDuplicateRecords ==
    (\A k \in 1..Len(dsq_trace) : dsq_trace[k].op = "add") =>
        \A i, j \in 1..Len(recent_dsq) :
            dsq_hash(recent_dsq[i]) = dsq_hash(recent_dsq[j]) => i = j

\* ---- the 'dash-peers-updated' callbacks

\* the live-peer map and the callbacks agree on every address
Mirrored ==
    \A peer \in Peers :
       /\ peer \in peers <=> peers_updated[peer] = 1
       /\ peer \notin peers <=> peers_updated[peer] = 0

============================================================================
